---- MODULE Spec2Model ----
(***************************************************************************)
(* State-machine model of the gateway-rotator secret controller            *)
(* (internal/controller/secret_controller.go): the object store with its   *)
(* optimistic concurrency, the external actor that creates, changes and    *)
(* deletes secrets, the watch path with its event filter and work queue,   *)
(* and the Reconcile pass, one action per store call.                      *)
(***************************************************************************)
EXTENDS Integers, Sequences, FiniteSets, TLC

(***************************************************************************)
(* Bounds of the model.                                                    *)
(***************************************************************************)
\* number of changes the external actor makes in one behaviour
MaxEnvSteps == 4
\* number of changes the external actor makes where secrets of every shape occur
MaxShapeSteps == 3
MaxLiveSteps == 3
\* number of changes the external actor makes where two sources share a target
MaxSharedSteps == 3
\* length of the --namespaces and ROTATOR_NAMESPACES values, in tokens
\* the number of changes the external actor makes when sources name sources
MaxNamedSteps == 3
\* the number of changes the external actor makes while two workers race
MaxRaceSteps == 3
\* the number of changes the external actor makes to a source with mixed pairs
MaxPairSteps == 3
MaxFlagLen == 3

(***************************************************************************)
(* Values.  A []byte value is a string; Nil is the nil slice, which is     *)
(* also what a Go map lookup yields for an absent key.                     *)
(***************************************************************************)
Nil == "<nil>"
Empty == ""

Namespaces == {"ns1", "ns2"}
SourceNames == {"srcA", "srcB"}
TargetNames == {"tgt"}
Names == SourceNames \cup TargetNames
Keys == Namespaces \X Names

SourceAnnotation == "rotator.gw.ei.telekom.de/source-secret"
TargetNameAnnotation == "rotator.gw.ei.telekom.de/destination-secret-name"
Finalizer == "rotator.gw.ei.telekom.de/finalizer"
SecretTypeTLS == "kubernetes.io/tls"
SecretTypeOpaque == "Opaque"

DataKeys == {"prev-tls.crt", "prev-tls.key", "prev-tls.kid",
             "tls.crt", "tls.key", "tls.kid",
             "next-tls.crt", "next-tls.key", "next-tls.kid"}

Workers == {"w1", "w2"}

\* len(b) of a []byte: a nil slice has length 0
BytesLen(b) == IF b = Nil THEN 0 ELSE Len(b)
\* string(b) of a []byte: the nil slice converts to ""
str(b) == IF b = Nil THEN "" ELSE b
\* m[k] of a map[string]string: an absent key reads as ""
Annot(v) == IF v = Nil THEN "" ELSE v

\* uuid.NewSHA1(uuid.Nil, b).String(): a function of the bytes alone, injective on
\* the certificates of the model; never the empty string
NewSHA1(b) == "uuid5:" \o str(b)

(***************************************************************************)
(* A secret.  uid 0 marks "no object".  marker and dest are the values of  *)
(* the two annotations (Nil: annotation absent), extra an unrelated        *)
(* annotation, owners the owner references (name, uid, controller).        *)
(***************************************************************************)
NoData == [k \in DataKeys |-> Nil]

NoSecret == [ns |-> "", name |-> "", uid |-> 0, rv |-> 0, marker |-> Nil, dest |-> Nil,
             extra |-> FALSE, type |-> SecretTypeOpaque, data |-> NoData,
             finalizers |-> {}, deleting |-> FALSE, owners |-> {}]

Exists(o) == o.uid # 0

VARIABLES
    store,         \* Keys -> secret: the object store
    rev,           \* the store's revision counter (resourceVersion, uid)
    queue,         \* the controller's work queue: a set of keys
    envSteps,      \* changes made by the external actor so far
    hist,          \* the (tls.crt, tls.key) pairs a watched source has held, oldest first
    pc,            \* Workers -> position of the worker's Reconcile pass
    req,           \* Workers -> ctrl.Request of the pass
    source,        \* Workers -> the pass's local source object
    target,        \* Workers -> the pass's local target object
    targetExists,  \* Workers -> the pass's targetExists
    result,        \* Workers -> what the pass returned
    calls,         \* Workers -> the store calls the pass has issued, in order
    settled,       \* the keys whose last pass succeeded on the store as it still is
    namespacesCli, \* main: the value of the --namespaces flag
    namespacesEnv, \* main: the value of ROTATOR_NAMESPACES, Unset when it is not set
    namespacesMap, \* main: the DefaultNamespaces of the manager's cache
    mainPc,        \* main: "parsed" after flag.Parse, "started" once the manager is set up
    rTargetNameAnnotation, \* the TargetNameAnnotation field of the SecretReconciler
    annotations,   \* the annotations of the secret of a watch event: key -> value
    wirePc,        \* "event", then "dropped" or "admitted", then "reconciled"
    lookupName,    \* the name Reconcile puts into targetNamespacedName
    createName     \* the name initializeLocalTarget gives the target

vars == <<store, rev, queue, envSteps, hist, settled, pc, req, source, target,
          targetExists, result, calls, namespacesCli, namespacesEnv, namespacesMap,
          mainPc, rTargetNameAnnotation, annotations, wirePc, lookupName, createName>>

\* the reconciler's annotation key and the path of one event through the filter
\* into Reconcile
wiring == <<rTargetNameAnnotation, annotations, wirePc, lookupName, createName>>

\* what main fixes before the manager starts
flags == <<namespacesCli, namespacesEnv, namespacesMap, mainPc, wiring>>

locals == <<pc, req, source, target, targetExists, result, calls>>

(***************************************************************************)
(* controllerutil helpers, as the controller calls them.                   *)
(***************************************************************************)
ContainsFinalizer(o, f) == f \in o.finalizers
AddFinalizer(o, f) == [o EXCEPT !.finalizers = @ \cup {f}]
RemoveFinalizer(o, f) == [o EXCEPT !.finalizers = @ \ {f}]

\* the owner reference SetControllerReference builds for owner
OwnerRef(owner) == [name |-> owner.name, uid |-> owner.uid, controller |-> TRUE]

\* SetControllerReference fails (AlreadyOwnedError) when the object has a
\* controller reference to an object of another name
AlreadyOwned(owner, object) ==
    \E r \in object.owners : r.controller /\ r.name # owner.name

\* SetControllerReference, successful case: upsert by name
SetControllerReference(owner, object) ==
    [object EXCEPT !.owners = {r \in @ : r.name # owner.name} \cup {OwnerRef(owner)}]

\* RemoveOwnerReference fails when the object has no owner reference for owner
NoOwnerReference(owner, object) ==
    ~ \E r \in object.owners : r.name = owner.name

\* RemoveOwnerReference, successful case
RemoveOwnerReference(owner, object) ==
    [object EXCEPT !.owners = {r \in @ : r.name # owner.name}]

\* mutant of IgnoreNotFound: a not-found error is passed on
IgnoreNotFound_Keep(err) == err

\* client.IgnoreNotFound(err)
IgnoreNotFound(err) == IF err = "NotFound" THEN "ok" ELSE err

(***************************************************************************)
(* The controller's pure parts.                                            *)
(***************************************************************************)
\* Reconcile, lines 48-51: the check of tls.crt and tls.key
InvalidSource(src) ==
    \/ src.data["tls.crt"] = Nil
    \/ BytesLen(src.data["tls.crt"]) = 0
    \/ src.data["tls.key"] = Nil
    \/ BytesLen(src.data["tls.crt"]) = 0

\* Reconcile, lines 58-61: the key of the target
targetNamespacedName(src) == <<src.ns, Annot(src.dest)>>

\* mutant of kidOf: the kid does not depend on the certificate
kidOf_Constant(src) == NewSHA1(Empty)

\* mutant of kidOf: the kid is derived from the key, not from the certificate
kidOf_FromKey(src) == NewSHA1(src.data["tls.key"])

\* Reconcile, line 84
kidOf(src) == NewSHA1(src.data["tls.crt"])

\* mutant of SkipRotation: the certificate is compared with tls.crt of the target
SkipRotation_CompareCurrent(src, tgt) == str(src.data["tls.crt"]) = str(tgt.data["tls.crt"])

\* mutant of SkipRotation: the guard is missing and every pass rotates
SkipRotation_Never(src, tgt) == FALSE

\* Reconcile, line 103: the rotation is skipped
SkipRotation(src, tgt) == str(src.data["tls.crt"]) = str(tgt.data["next-tls.crt"])

\* mutant of initializeLocalTarget: the target is put into a fixed namespace
initializeLocalTarget_FixedNamespace(src, kid) ==
    [NoSecret EXCEPT
        !.name = Annot(src.dest),
        !.ns = "ns1",
        !.type = SecretTypeTLS,
        !.data = [k \in DataKeys |->
                    CASE k = "next-tls.crt" -> src.data["tls.crt"]
                      [] k = "next-tls.key" -> src.data["tls.key"]
                      [] k = "next-tls.kid" -> kid
                      [] OTHER -> Empty]]

initializeLocalTarget(src, kid) ==
    [NoSecret EXCEPT
        !.name = Annot(src.dest),
        !.ns = src.ns,
        !.type = SecretTypeTLS,
        !.data = [k \in DataKeys |->
                    CASE k = "next-tls.crt" -> src.data["tls.crt"]
                      [] k = "next-tls.key" -> src.data["tls.key"]
                      [] k = "next-tls.kid" -> kid
                      [] OTHER -> Empty]]

\* mutant of updateLocalTargetData: next-tls.key keeps the key of the certificate
\* before
updateLocalTargetData_KeepKey(tgt, src, kid) ==
    [tgt EXCEPT
        !.data = [k \in DataKeys |->
                    CASE k = "prev-tls.crt" -> tgt.data["tls.crt"]
                      [] k = "prev-tls.key" -> tgt.data["tls.key"]
                      [] k = "prev-tls.kid" -> tgt.data["tls.kid"]
                      [] k = "tls.crt" -> tgt.data["next-tls.crt"]
                      [] k = "tls.key" -> tgt.data["next-tls.key"]
                      [] k = "tls.kid" -> tgt.data["next-tls.kid"]
                      [] k = "next-tls.crt" -> src.data["tls.crt"]
                      [] k = "next-tls.key" -> tgt.data["next-tls.key"]
                      [] k = "next-tls.kid" -> kid]]

\* mutant of updateLocalTargetData: tls.kid is not replaced by next-tls.kid
updateLocalTargetData_StaleKid(tgt, src, kid) ==
    [tgt EXCEPT
        !.data = [k \in DataKeys |->
                    CASE k = "prev-tls.crt" -> tgt.data["tls.crt"]
                      [] k = "prev-tls.key" -> tgt.data["tls.key"]
                      [] k = "prev-tls.kid" -> tgt.data["tls.kid"]
                      [] k = "tls.crt" -> tgt.data["next-tls.crt"]
                      [] k = "tls.key" -> tgt.data["next-tls.key"]
                      [] k = "tls.kid" -> tgt.data["tls.kid"]
                      [] k = "next-tls.crt" -> src.data["tls.crt"]
                      [] k = "next-tls.key" -> src.data["tls.key"]
                      [] k = "next-tls.kid" -> kid]]

\* mutant of updateLocalTargetData: tls.* is not moved to prev-tls.*
updateLocalTargetData_KeepPrev(tgt, src, kid) ==
    [tgt EXCEPT
        !.data = [k \in DataKeys |->
                    CASE k = "tls.crt" -> tgt.data["next-tls.crt"]
                      [] k = "tls.key" -> tgt.data["next-tls.key"]
                      [] k = "tls.kid" -> tgt.data["next-tls.kid"]
                      [] k = "next-tls.crt" -> src.data["tls.crt"]
                      [] k = "next-tls.key" -> src.data["tls.key"]
                      [] k = "next-tls.kid" -> kid
                      [] OTHER -> tgt.data[k]]]

updateLocalTargetData(tgt, src, kid) ==
    [tgt EXCEPT
        !.data = [k \in DataKeys |->
                    CASE k = "prev-tls.crt" -> tgt.data["tls.crt"]
                      [] k = "prev-tls.key" -> tgt.data["tls.key"]
                      [] k = "prev-tls.kid" -> tgt.data["tls.kid"]
                      [] k = "tls.crt" -> tgt.data["next-tls.crt"]
                      [] k = "tls.key" -> tgt.data["next-tls.key"]
                      [] k = "tls.kid" -> tgt.data["next-tls.kid"]
                      [] k = "next-tls.crt" -> src.data["tls.crt"]
                      [] k = "next-tls.key" -> src.data["tls.key"]
                      [] k = "next-tls.kid" -> kid]]

\* SetupWithManager, lines 129-138: the event filter
secretPredicate(obj) ==
    /\ obj.marker # Nil /\ obj.marker = "true"
    /\ obj.dest # Nil /\ BytesLen(obj.dest) > 0

\* SetupWithManager, lines 140-145: For(Secret) enqueues the object of an admitted
\* event, Owns(Secret) the controller owner of the object of an admitted event
EventKeys(obj) ==
    IF secretPredicate(obj)
    THEN {<<obj.ns, obj.name>>} \cup {<<obj.ns, r.name>> : r \in {x \in obj.owners : x.controller}}
    ELSE {}

(***************************************************************************)
(* The object store: get, create and update with optimistic concurrency.   *)
(***************************************************************************)
\* get: the stored object, NoSecret when there is none (an empty name is never found)
Lookup(k) == IF k \in Keys THEN store[k] ELSE NoSecret

KeyOf(o) == <<o.ns, o.name>>

\* mutant of UpdateError: the store does not compare resource versions
UpdateError_NoVersionCheck(obj) ==
    IF ~Exists(Lookup(KeyOf(obj))) THEN "NotFound"
    ELSE IF Lookup(KeyOf(obj)).uid # obj.uid THEN "Conflict"
    ELSE "ok"

\* the error an update of obj meets in the store, "ok" when it is accepted
UpdateError(obj) ==
    IF ~Exists(Lookup(KeyOf(obj))) THEN "NotFound"
    ELSE IF Lookup(KeyOf(obj)).uid # obj.uid \/ Lookup(KeyOf(obj)).rv # obj.rv THEN "Conflict"
    ELSE "ok"

\* the error a create of obj meets in the store, "ok" when it is accepted
CreateError(obj) ==
    IF KeyOf(obj) \notin Keys THEN "Invalid"
    ELSE IF Exists(store[KeyOf(obj)]) THEN "AlreadyExists"
    ELSE "ok"

\* what an accepted update stores: the object at a new revision; the deletion
\* timestamp is the store's own and is kept
Updated(obj) == [obj EXCEPT !.rv = rev + 1, !.deleting = store[KeyOf(obj)].deleting]

\* what an accepted create stores
Created(obj) == [obj EXCEPT !.rv = rev + 1, !.uid = rev + 1, !.deleting = FALSE]

\* an object whose deletion was requested is removed once its finalizer list is empty
Settled(obj) == IF obj.deleting /\ obj.finalizers = {} THEN NoSecret ELSE obj

\* the store after a write of obj, and the watch path's reaction to the event
Write(obj) ==
    /\ store' = [store EXCEPT ![KeyOf(obj)] = Settled(obj)]
    /\ rev' = rev + 1
    /\ queue' = queue \cup EventKeys(obj)

(***************************************************************************)
(* The external actor (cert-manager, kubectl, the test runner), which      *)
(* makes at most max changes.                                              *)
(***************************************************************************)
EnvCreate(max, k, marker, dest, crt, key) ==
    /\ envSteps < max
    /\ ~Exists(store[k])
    /\ Write(Created([NoSecret EXCEPT
            !.ns = k[1], !.name = k[2], !.marker = marker, !.dest = dest,
            !.data = [NoData EXCEPT !["tls.crt"] = crt, !["tls.key"] = key]]))
    /\ envSteps' = envSteps + 1
    /\ settled' = {}
    /\ UNCHANGED <<locals, flags>>

EnvUpdateData(max, k, crt, key) ==
    /\ envSteps < max
    /\ Exists(store[k])
    /\ <<crt, key>> # <<store[k].data["tls.crt"], store[k].data["tls.key"]>>
    /\ Write(Updated([store[k] EXCEPT !.data["tls.crt"] = crt, !.data["tls.key"] = key]))
    /\ envSteps' = envSteps + 1
    /\ settled' = {}
    /\ UNCHANGED <<locals, flags>>

\* a finalizer of another controller
OtherFinalizer == "example.com/other-finalizer"

\* a secret that is created with the finalizer of another controller
EnvCreateHeld(max, k, marker, dest, crt, key) ==
    /\ envSteps < max
    /\ ~Exists(store[k])
    /\ Write(Created([NoSecret EXCEPT
            !.ns = k[1], !.name = k[2], !.marker = marker, !.dest = dest,
            !.finalizers = {OtherFinalizer},
            !.data = [NoData EXCEPT !["tls.crt"] = crt, !["tls.key"] = key]]))
    /\ envSteps' = envSteps + 1
    /\ settled' = {}
    /\ UNCHANGED <<locals, flags>>

\* a change of an unrelated annotation
EnvTouch(max, k) ==
    /\ envSteps < max
    /\ Exists(store[k])
    /\ Write(Updated([store[k] EXCEPT !.extra = ~@]))
    /\ envSteps' = envSteps + 1
    /\ settled' = {}
    /\ UNCHANGED <<locals, flags>>

\* a delete request: the object is removed at once when it has no finalizer
EnvDelete(max, k) ==
    /\ envSteps < max
    /\ Exists(store[k])
    /\ ~store[k].deleting
    /\ Write([store[k] EXCEPT !.rv = rev + 1, !.deleting = TRUE])
    /\ envSteps' = envSteps + 1
    /\ settled' = {}
    /\ UNCHANGED <<locals, flags>>

(***************************************************************************)
(* The Reconcile pass.  Each action is one store call of the pass together *)
(* with the local computation that follows it up to the next store call or *)
(* the return; pc = "done" holds the returned error ("ok" for nil) until   *)
(* the controller takes the result.                                        *)
(***************************************************************************)
Ret(src, tgt, res) == [pc |-> "done", source |-> src, target |-> tgt, result |-> res]
Goto(p, src, tgt) == [pc |-> p, source |-> src, target |-> tgt, result |-> ""]

\* Reconcile, lines 83-122, up to the create or update call
Rotate(src, tgt, exists) ==
    IF ~exists
    THEN Goto("Create", src, SetControllerReference(src, initializeLocalTarget(src, kidOf(src))))
    ELSE IF SkipRotation(src, tgt)
    THEN Ret(src, tgt, "ok")
    ELSE IF AlreadyOwned(src, updateLocalTargetData(tgt, src, kidOf(src)))
    THEN Ret(src, updateLocalTargetData(tgt, src, kidOf(src)), "AlreadyOwned")
    ELSE Goto("Update", src,
              SetControllerReference(src, updateLocalTargetData(tgt, src, kidOf(src))))

\* mutant of handleDeletion: a missing target is created again
handleDeletion_RecreateTarget(src, tgt, exists) ==
    IF ~ContainsFinalizer(src, Finalizer)
    THEN Ret(src, tgt, "ok")
    ELSE IF exists
    THEN IF NoOwnerReference(src, tgt)
         THEN Ret(src, tgt, "NoOwnerReference")
         ELSE Goto("DeletionUpdateTarget", src,
                   [RemoveOwnerReference(src, tgt) EXCEPT !.deleting = FALSE])
    ELSE Rotate(src, tgt, exists)

\* mutant of handleDeletion: the test for the finalizer is missing
handleDeletion_NoFinalizerCheck(src, tgt, exists) ==
    IF exists
    THEN IF NoOwnerReference(src, tgt)
         THEN Ret(src, tgt, "NoOwnerReference")
         ELSE Goto("DeletionUpdateTarget", src,
                   [RemoveOwnerReference(src, tgt) EXCEPT !.deleting = FALSE])
    ELSE Goto("DeletionUpdateSource", RemoveFinalizer(src, Finalizer), tgt)

\* mutant of handleDeletion: the finalizer is removed without touching the target
handleDeletion_KeepOwner(src, tgt, exists) ==
    IF ~ContainsFinalizer(src, Finalizer)
    THEN Ret(src, tgt, "ok")
    ELSE Goto("DeletionUpdateSource", RemoveFinalizer(src, Finalizer), tgt)

\* handleDeletion, lines 208-229, up to the first update call
handleDeletion(src, tgt, exists) ==
    IF ~ContainsFinalizer(src, Finalizer)
    THEN Ret(src, tgt, "ok")
    ELSE IF exists
    THEN IF NoOwnerReference(src, tgt)
         THEN Ret(src, tgt, "NoOwnerReference")
         ELSE Goto("DeletionUpdateTarget", src,
                   [RemoveOwnerReference(src, tgt) EXCEPT !.deleting = FALSE])
    ELSE Goto("DeletionUpdateSource", RemoveFinalizer(src, Finalizer), tgt)

\* mutant of Finalize: a source under deletion is rotated like any other
Finalize_RotateDeleted(src, tgt, exists) ==
    IF ~src.deleting /\ ~ContainsFinalizer(src, Finalizer)
    THEN Goto("AddFinalizer", AddFinalizer(src, Finalizer), tgt)
    ELSE Rotate(src, tgt, exists)

\* mutant of Finalize: the finalizer is written again although it is present
Finalize_AlwaysAdd(src, tgt, exists) ==
    IF ~src.deleting
    THEN Goto("AddFinalizer", AddFinalizer(src, Finalizer), tgt)
    ELSE handleDeletion(src, tgt, exists)

\* Reconcile, lines 72-81, up to the next store call
Finalize(src, tgt, exists) ==
    IF ~src.deleting /\ ~ContainsFinalizer(src, Finalizer)
    THEN Goto("AddFinalizer", AddFinalizer(src, Finalizer), tgt)
    ELSE IF src.deleting
    THEN handleDeletion(src, tgt, exists)
    ELSE Rotate(src, tgt, exists)

\* Reconcile, lines 47-54, after the source was read
Validate(src) ==
    IF InvalidSource(src) THEN Ret(src, NoSecret, "ok") ELSE Goto("GetTarget", src, NoSecret)

\* the pass of worker w moves on to l
Move(w, l) ==
    /\ pc' = [pc EXCEPT ![w] = l.pc]
    /\ source' = [source EXCEPT ![w] = l.source]
    /\ target' = [target EXCEPT ![w] = l.target]
    /\ result' = [result EXCEPT ![w] = l.result]

\* the pass of worker w records a store call: the operation, the key, the error
\* ("ok" for none), the store's revision and object before and the object after
Call(w, op, k, err, after) ==
    calls' = [calls EXCEPT ![w] = Append(@,
                 [op |-> op, key |-> k, err |-> err, rev |-> rev,
                  before |-> Lookup(k), after |-> after])]

\* the errors a store call can return: the store's answer, or a transient failure
Outcomes(e) == {e, "Transient"}

\* the key of the target the stored secret k names
DestKeyOf(k) == targetNamespacedName(store[k])

\* the watch path hands a queued key to an idle worker; a key is never handed
\* to two workers at once
Dequeue(w, k) ==
    /\ pc[w] = "idle"
    /\ k \in queue
    /\ \A v \in Workers : pc[v] # "idle" => req[v] # k
    /\ queue' = queue \ {k}
    /\ pc' = [pc EXCEPT ![w] = "GetSource"]
    /\ req' = [req EXCEPT ![w] = k]
    /\ UNCHANGED <<flags, store, rev, envSteps, hist, settled, source, target, targetExists,
                   result, calls>>

\* Reconcile, lines 42-54: r.Get of the source, then the validation
GetSource(w) ==
    /\ pc[w] = "GetSource"
    /\ \E e \in Outcomes(IF Exists(Lookup(req[w])) THEN "ok" ELSE "NotFound") :
          /\ Call(w, "get", req[w], e, Lookup(req[w]))
          /\ IF e = "ok"
             THEN Move(w, Validate(Lookup(req[w])))
             ELSE Move(w, Ret(NoSecret, NoSecret, IgnoreNotFound(e)))
    /\ UNCHANGED <<flags, store, rev, queue, envSteps, hist, settled, req, targetExists>>

\* Reconcile, lines 56-81: r.Get of the target, then the finalizer and deletion branch
GetTarget(w) ==
    /\ pc[w] = "GetTarget"
    /\ LET k == targetNamespacedName(source[w])
       IN \E e \in Outcomes(IF Exists(Lookup(k)) THEN "ok" ELSE "NotFound") :
             /\ Call(w, "get", k, e, Lookup(k))
             /\ targetExists' = [targetExists EXCEPT ![w] = (e # "NotFound")]
             /\ IF e \in {"ok", "NotFound"}
                THEN Move(w, Finalize(source[w], Lookup(k), e = "ok"))
                ELSE Move(w, Ret(source[w], NoSecret, e))
    /\ UNCHANGED <<flags, store, rev, queue, envSteps, hist, settled, req>>

\* mutant of StoreUpdate: a refused update is ignored and the pass moves on
StoreUpdate_SwallowError(w, obj, onOk) ==
    \E e \in Outcomes(UpdateError(obj)) :
        IF e = "ok"
        THEN /\ Write(Updated(obj))
             /\ Call(w, "update", KeyOf(obj), e, Settled(Updated(obj)))
             /\ Move(w, onOk)
        ELSE /\ Call(w, "update", KeyOf(obj), e, Lookup(KeyOf(obj)))
             /\ Move(w, onOk)
             /\ UNCHANGED <<store, rev, queue>>

\* r.Update(obj) by the pass of worker w: accepted, the pass moves on to onOk;
\* refused, it returns the error
StoreUpdate(w, obj, onOk) ==
    \E e \in Outcomes(UpdateError(obj)) :
        IF e = "ok"
        THEN /\ Write(Updated(obj))
             /\ Call(w, "update", KeyOf(obj), e, Settled(Updated(obj)))
             /\ Move(w, onOk)
        ELSE /\ Call(w, "update", KeyOf(obj), e, Lookup(KeyOf(obj)))
             /\ Move(w, Ret(source[w], target[w], e))
             /\ UNCHANGED <<store, rev, queue>>

\* mutant of AddFinalizerUpdate: the pass goes on although the update was refused
AddFinalizerUpdate_IgnoreError(w) ==
    /\ pc[w] = "AddFinalizer"
    /\ StoreUpdate_SwallowError(w, source[w],
                                Rotate(Updated(source[w]), target[w], targetExists[w]))
    /\ UNCHANGED <<flags, envSteps, hist, settled, req, targetExists>>

\* Reconcile, lines 75-78: r.Update of the source with the finalizer added
AddFinalizerUpdate(w) ==
    /\ pc[w] = "AddFinalizer"
    /\ StoreUpdate(w, source[w], Rotate(Updated(source[w]), target[w], targetExists[w]))
    /\ UNCHANGED <<flags, envSteps, hist, settled, req, targetExists>>

\* mutant of Create: a refused create is taken for success
Create_SwallowError(w) ==
    /\ pc[w] = "Create"
    /\ \E e \in Outcomes(CreateError(target[w])) :
          IF e = "ok"
          THEN /\ Write(Created(target[w]))
               /\ Call(w, "create", KeyOf(target[w]), e, Created(target[w]))
               /\ Move(w, Ret(source[w], Created(target[w]), "ok"))
          ELSE /\ Call(w, "create", KeyOf(target[w]), e, Lookup(KeyOf(target[w])))
               /\ Move(w, Ret(source[w], target[w], "ok"))
               /\ UNCHANGED <<store, rev, queue>>
    /\ UNCHANGED <<flags, envSteps, hist, settled, req, targetExists>>

\* Reconcile, lines 95-99: r.Create of the target
Create(w) ==
    /\ pc[w] = "Create"
    /\ \E e \in Outcomes(CreateError(target[w])) :
          IF e = "ok"
          THEN /\ Write(Created(target[w]))
               /\ Call(w, "create", KeyOf(target[w]), e, Created(target[w]))
               /\ Move(w, Ret(source[w], Created(target[w]), "ok"))
          ELSE /\ Call(w, "create", KeyOf(target[w]), e, Lookup(KeyOf(target[w])))
               /\ Move(w, Ret(source[w], target[w], e))
               /\ UNCHANGED <<store, rev, queue>>
    /\ UNCHANGED <<flags, envSteps, hist, settled, req, targetExists>>

\* Reconcile, lines 116-121: r.Update of the rotated target
Update(w) ==
    /\ pc[w] = "Update"
    /\ StoreUpdate(w, target[w], Ret(source[w], Updated(target[w]), "ok"))
    /\ UNCHANGED <<flags, envSteps, hist, settled, req, targetExists>>

\* mutant of DeletionUpdateTarget: the finalizer is removed although the update of
\* the target was refused
DeletionUpdateTarget_IgnoreError(w) ==
    /\ pc[w] = "DeletionUpdateTarget"
    /\ StoreUpdate_SwallowError(w, target[w],
                   Goto("DeletionUpdateSource", RemoveFinalizer(source[w], Finalizer),
                        Updated(target[w])))
    /\ UNCHANGED <<flags, envSteps, hist, settled, req, targetExists>>

\* handleDeletion, lines 223-229: r.Update of the target without the owner reference
DeletionUpdateTarget(w) ==
    /\ pc[w] = "DeletionUpdateTarget"
    /\ StoreUpdate(w, target[w],
                   Goto("DeletionUpdateSource", RemoveFinalizer(source[w], Finalizer),
                        Updated(target[w])))
    /\ UNCHANGED <<flags, envSteps, hist, settled, req, targetExists>>

\* handleDeletion, lines 230-233: r.Update of the source without the finalizer
DeletionUpdateSource(w) ==
    /\ pc[w] = "DeletionUpdateSource"
    /\ StoreUpdate(w, source[w], Ret(Updated(source[w]), target[w], "ok"))
    /\ UNCHANGED <<flags, envSteps, hist, settled, req, targetExists>>

\* the number of accepted writes among the calls cs
RECURSIVE Writes(_)
Writes(cs) ==
    IF cs = <<>> THEN 0
    ELSE Writes(SubSeq(cs, 1, Len(cs) - 1))
         + (IF cs[Len(cs)].op # "get" /\ cs[Len(cs)].err = "ok" THEN 1 ELSE 0)

\* nothing but the pass itself has written to the store since the pass began
Undisturbed(w) ==
    /\ calls[w] # <<>>
    /\ \A i \in 1..Len(calls[w]) :
          calls[w][i].rev = calls[w][1].rev + Writes(SubSeq(calls[w], 1, i - 1))
    /\ rev = calls[w][1].rev + Writes(calls[w])

\* the pass of worker w succeeded for a source that is not being deleted and holds
\* a certificate and a key, on a store nothing else wrote to
Settles(w) ==
    /\ result[w] = "ok"
    /\ Exists(source[w]) /\ ~source[w].deleting
    /\ BytesLen(source[w].data["tls.crt"]) > 0 /\ BytesLen(source[w].data["tls.key"]) > 0
    /\ Undisturbed(w)

\* the controller takes the result of the pass: a failed pass is queued again
Return(w) ==
    /\ pc[w] = "done"
    /\ queue' = IF result[w] = "ok" THEN queue ELSE queue \cup {req[w]}
    /\ settled' = IF Settles(w) THEN settled \cup {req[w]} ELSE settled \ {req[w]}
    /\ pc' = [pc EXCEPT ![w] = "idle"]
    /\ source' = [source EXCEPT ![w] = NoSecret]
    /\ target' = [target EXCEPT ![w] = NoSecret]
    /\ targetExists' = [targetExists EXCEPT ![w] = FALSE]
    /\ result' = [result EXCEPT ![w] = ""]
    /\ calls' = [calls EXCEPT ![w] = <<>>]
    /\ UNCHANGED <<flags, store, rev, envSteps, hist, req>>

(***************************************************************************)
(* main: the namespaces to watch.  A string is a sequence of tokens, the   *)
(* comma being one token and each other token a run of characters without  *)
(* comma.                                                                  *)
(***************************************************************************)
Comma == ","
Tokens == {"ns1", "ns2", Comma}

\* the strings of at most n tokens
RECURSIVE StringsUpTo(_)
StringsUpTo(n) ==
    IF n = 0 THEN {<<>>}
    ELSE StringsUpTo(n - 1)
         \cup {Append(s, t) : s \in {x \in StringsUpTo(n - 1) : Len(x) = n - 1}, t \in Tokens}

\* os.LookupEnv: the value and whether the variable is set
Unset == [ok |-> FALSE, value |-> <<>>]
LookupEnv(v) == [ok |-> TRUE, value |-> v]

\* strings.Split(s, ","): the pieces between the commas; one empty piece for ""
RECURSIVE Split(_)
Split(s) ==
    IF \A i \in 1..Len(s) : s[i] # Comma
    THEN <<s>>
    ELSE LET i == CHOOSE j \in 1..Len(s) :
                     s[j] = Comma /\ \A l \in 1..(j - 1) : s[l] # Comma
         IN <<SubSeq(s, 1, i - 1)>> \o Split(SubSeq(s, i + 1, Len(s)))

\* a map[string]cache.Config: nil, or its keys
NilMap == [nil |-> TRUE, keys |-> {}]

\* main.go, lines 303-332
applyNamespacesFromCliOrEnv(cli, env) ==
    LET fromCli == IF cli # <<>> THEN Split(cli) ELSE <<>>
        namespaces == IF env.ok THEN Split(env.value) ELSE fromCli
    IN IF Len(namespaces) > 0 /\ namespaces[1] # <<>>
       THEN [nil |-> FALSE, keys |-> {namespaces[i] : i \in 1..Len(namespaces)}]
       ELSE NilMap

\* main.go, line 129: main computes the namespaces and hands them to the manager
StartManager ==
    /\ mainPc = "parsed"
    /\ namespacesMap' = applyNamespacesFromCliOrEnv(namespacesCli, namespacesEnv)
    /\ mainPc' = "started"
    /\ UNCHANGED <<namespacesCli, namespacesEnv, store, rev, queue, envSteps, hist, settled,
                   locals, wiring>>

\* the annotation key of the secrets the tests create and of the reconciler the
\* tests configure
TestTargetNameAnnotation == "rotator.gateway.mdw.telekom.de/destination-secret-name"

\* the values the reconciler's TargetNameAnnotation field is configured with
ConfiguredAnnotations == {TargetNameAnnotation, TestTargetNameAnnotation}

\* the annotation keys a secret may carry
AnnotationKeys == {SourceAnnotation} \cup ConfiguredAnnotations

\* the annotation maps of a secret (Nil: the key is absent)
AnnotationMaps ==
    {a \in [AnnotationKeys -> {Nil, Empty, "true", "tgt", "srcB"}] :
        /\ a[SourceAnnotation] \in {Nil, "true", Empty}
        /\ \A k \in ConfiguredAnnotations : a[k] # "true"}

\* the secret as the event filter reads it: the destination name is the value
\* under r.TargetNameAnnotation (line 136)
FilterView(a, configured) ==
    [NoSecret EXCEPT !.ns = "ns1", !.name = "srcA", !.uid = 1,
                     !.marker = a[SourceAnnotation], !.dest = a[configured],
                     !.data = [NoData EXCEPT !["tls.crt"] = "c1", !["tls.key"] = "k1"]]

\* the secret as Reconcile and initializeLocalTarget read it: the destination name
\* is the value under the key written out at lines 60 and 153
ReconcileView(a) ==
    [NoSecret EXCEPT !.ns = "ns1", !.name = "srcA", !.uid = 1,
                     !.marker = a[SourceAnnotation],
                     !.dest = a["rotator.gw.ei.telekom.de/destination-secret-name"],
                     !.data = [NoData EXCEPT !["tls.crt"] = "c1", !["tls.key"] = "k1"]]

\* SetupWithManager, lines 129-143: the filter decides on the event
FilterEvent ==
    /\ wirePc = "event"
    /\ wirePc' = IF secretPredicate(FilterView(annotations, rTargetNameAnnotation))
                 THEN "admitted" ELSE "dropped"
    /\ UNCHANGED <<rTargetNameAnnotation, annotations, lookupName, createName>>
    /\ UNCHANGED <<namespacesCli, namespacesEnv, namespacesMap, mainPc, store, rev, queue,
                   envSteps, hist, settled, locals>>

\* Reconcile, lines 58-61, and initializeLocalTarget, lines 150-155: the names of
\* the target for the secret of an admitted event
NameTarget ==
    /\ wirePc = "admitted"
    /\ lookupName' = targetNamespacedName(ReconcileView(annotations))[2]
    /\ createName' = initializeLocalTarget(ReconcileView(annotations),
                                          kidOf(ReconcileView(annotations))).name
    /\ wirePc' = "reconciled"
    /\ UNCHANGED <<rTargetNameAnnotation, annotations>>
    /\ UNCHANGED <<namespacesCli, namespacesEnv, namespacesMap, mainPc, store, rev, queue,
                   envSteps, hist, settled, locals>>

(***************************************************************************)
(* Specifications.                                                         *)
(***************************************************************************)
InitController ==
    /\ store = [k \in Keys |-> NoSecret]
    /\ rev = 0
    /\ queue = {}
    /\ envSteps = 0
    /\ hist = <<>>
    /\ settled = {}
    /\ pc = [w \in Workers |-> "idle"]
    /\ req = [w \in Workers |-> <<"", "">>]
    /\ source = [w \in Workers |-> NoSecret]
    /\ target = [w \in Workers |-> NoSecret]
    /\ targetExists = [w \in Workers |-> FALSE]
    /\ result = [w \in Workers |-> ""]
    /\ calls = [w \in Workers |-> <<>>]

\* the reconciler as main configures it (main.go, lines 259-265), no event under way
InitWiring ==
    /\ rTargetNameAnnotation = TargetNameAnnotation
    /\ annotations = [k \in AnnotationKeys |-> Nil]
    /\ wirePc = "idle"
    /\ lookupName = ""
    /\ createName = ""

\* the controller of a manager that was started without --namespaces and without
\* ROTATOR_NAMESPACES
Init ==
    /\ InitController
    /\ namespacesCli = <<>>
    /\ namespacesEnv = Unset
    /\ namespacesMap = applyNamespacesFromCliOrEnv(<<>>, Unset)
    /\ mainPc = "started"
    /\ InitWiring

\* main after flag.Parse, for every value of the flag and of the variable
InitMain ==
    /\ InitController
    /\ namespacesCli \in StringsUpTo(MaxFlagLen)
    /\ namespacesEnv \in {Unset} \cup {LookupEnv(v) : v \in StringsUpTo(MaxFlagLen)}
    /\ namespacesMap = NilMap
    /\ mainPc = "parsed"
    /\ InitWiring

NextMain == StartManager

SpecMain == InitMain /\ [][NextMain]_vars

\* a reconciler with any of the configured annotation keys, and the event of a
\* secret with any annotations
InitConfigured ==
    /\ InitController
    /\ namespacesCli = <<>>
    /\ namespacesEnv = Unset
    /\ namespacesMap = applyNamespacesFromCliOrEnv(<<>>, Unset)
    /\ mainPc = "started"
    /\ rTargetNameAnnotation \in ConfiguredAnnotations
    /\ annotations \in AnnotationMaps
    /\ wirePc = "event"
    /\ lookupName = ""
    /\ createName = ""

NextConfigured == FilterEvent \/ NameTarget

SpecConfigured == InitConfigured /\ [][NextConfigured]_vars

\* the steps of the pass of worker w
Reconcile(w) ==
    \/ GetSource(w)
    \/ GetTarget(w)
    \/ AddFinalizerUpdate(w)
    \/ Create(w)
    \/ Update(w)
    \/ DeletionUpdateTarget(w)
    \/ DeletionUpdateSource(w)
    \/ Return(w)

\* the certificate and key pairs of a valid source
ValidPairs == {<<"c1", "k1">>, <<"c2", "k2">>, <<"c3", "k3">>}

\* no secret exists outside namespace ns
OnlyNamespace(ns) == \A k \in Keys : Exists(store[k]) => k[1] = ns

\* One source and its target, in one namespace at a time, and one Reconcile
\* worker (the controller's default MaxConcurrentReconciles).
Next ==
    \/ \E ns \in Namespaces, p \in ValidPairs :
          /\ OnlyNamespace(ns)
          /\ EnvCreate(MaxEnvSteps, <<ns, "srcA">>, "true", "tgt", p[1], p[2])
          /\ UNCHANGED hist
    \/ \E ns \in Namespaces, p \in ValidPairs :
          EnvUpdateData(MaxEnvSteps, <<ns, "srcA">>, p[1], p[2]) /\ UNCHANGED hist
    \/ \E ns \in Namespaces : EnvTouch(MaxEnvSteps, <<ns, "srcA">>) /\ UNCHANGED hist
    \/ \E ns \in Namespaces, n \in {"srcA", "tgt"} :
          EnvDelete(MaxEnvSteps, <<ns, n>>) /\ UNCHANGED hist
    \/ \E k \in Keys : Dequeue("w1", k)
    \/ Reconcile("w1")

Spec == Init /\ [][Next]_vars

\* the steps of a pass for a source that is not being deleted
ReconcileActive(w) ==
    \/ GetSource(w)
    \/ GetTarget(w)
    \/ AddFinalizerUpdate(w)
    \/ Create(w)
    \/ Update(w)
    \/ Return(w)

\* the pairs a renewed source takes: a certificate may come back with another key
RenewedPairs == ValidPairs \cup {<<"c1", "k9">>}

\* the target of source k holds the source's tls.crt in next-tls.crt
InSync(k) ==
    /\ Exists(store[k]) /\ Exists(Lookup(DestKeyOf(k)))
    /\ Lookup(DestKeyOf(k)).data["next-tls.crt"] = store[k].data["tls.crt"]

\* One source that is renewed again and again, each renewal changing tls.crt and
\* coming after the previous certificate has reached the target; hist records the
\* pairs the source has held.
NextHistory ==
    \/ \E p \in RenewedPairs :
          /\ EnvCreate(MaxEnvSteps, <<"ns1", "srcA">>, "true", "tgt", p[1], p[2])
          /\ hist' = <<p>>
    \/ \E p \in RenewedPairs :
          /\ InSync(<<"ns1", "srcA">>)
          /\ p[1] # store[<<"ns1", "srcA">>].data["tls.crt"]
          /\ EnvUpdateData(MaxEnvSteps, <<"ns1", "srcA">>, p[1], p[2])
          /\ hist' = Append(hist, p)
    \/ EnvTouch(MaxEnvSteps, <<"ns1", "srcA">>) /\ UNCHANGED hist
    \/ Dequeue("w1", <<"ns1", "srcA">>)
    \/ ReconcileActive("w1")

SpecHistory == Init /\ [][NextHistory]_vars

\* the pairs of a source whose certificates and keys combine freely
MixedPairs == {<<"c1", "k1">>, <<"c2", "k2">>, <<"c1", "k2">>, <<"c2", "k1">>}

\* One source that is renewed at any moment, also while a pass is running, with
\* certificates and keys that combine freely; hist records every pair the source
\* has held.
NextPaired ==
    \/ \E p \in MixedPairs :
          /\ EnvCreate(MaxPairSteps, <<"ns1", "srcA">>, "true", "tgt", p[1], p[2])
          /\ hist' = Append(hist, p)
    \/ \E p \in MixedPairs :
          /\ EnvUpdateData(MaxPairSteps, <<"ns1", "srcA">>, p[1], p[2])
          /\ hist' = Append(hist, p)
    \/ EnvTouch(MaxPairSteps, <<"ns1", "srcA">>) /\ UNCHANGED hist
    \/ Dequeue("w1", <<"ns1", "srcA">>)
    \/ ReconcileActive("w1")

SpecPaired == Init /\ [][NextPaired]_vars

\* the values the two annotations of a secret take (Nil: annotation absent)
Markers == {Nil, "true", "false"}
Dests == {Nil, Empty, "tgt"}

\* pairs in which tls.crt or tls.key is absent or empty
InvalidPairs == {<<Nil, "k1">>, <<Empty, "k1">>, <<"c1", Nil>>, <<"c1", Empty>>}

\* Secrets of every shape under one name: with and without the annotations, with
\* and without tls.crt and tls.key; passes start from the watch path alone.
NextAnySecret ==
    \/ \E m \in Markers, d \in Dests, p \in InvalidPairs \cup {<<"c1", "k1">>, <<"c2", "k2">>} :
          /\ EnvCreate(MaxShapeSteps, <<"ns1", "srcA">>, m, d, p[1], p[2])
          /\ UNCHANGED hist
    \/ \E n \in {"srcA", "tgt"} : EnvDelete(MaxShapeSteps, <<"ns1", n>>) /\ UNCHANGED hist
    \/ \E k \in Keys : Dequeue("w1", k)
    \/ Reconcile("w1")

SpecAnySecret == Init /\ [][NextAnySecret]_vars

\* One source whose tls.key may be replaced while its tls.crt stays.
NextRekey ==
    \/ \E p \in RenewedPairs :
          /\ EnvCreate(MaxEnvSteps, <<"ns1", "srcA">>, "true", "tgt", p[1], p[2])
          /\ UNCHANGED hist
    \/ \E p \in RenewedPairs :
          EnvUpdateData(MaxEnvSteps, <<"ns1", "srcA">>, p[1], p[2]) /\ UNCHANGED hist
    \/ Dequeue("w1", <<"ns1", "srcA">>)
    \/ ReconcileActive("w1")

SpecRekey == Init /\ [][NextRekey]_vars

\* Two sources in one namespace that name the same target, and another writer that
\* may put a secret of the target's name into the store; one Reconcile worker.
NextShared ==
    \/ \E n \in SourceNames, p \in {<<"c1", "k1">>, <<"c2", "k2">>} :
          /\ EnvCreate(MaxSharedSteps, <<"ns1", n>>, "true", "tgt", p[1], p[2])
          /\ UNCHANGED hist
    \/ /\ EnvCreate(MaxSharedSteps, <<"ns1", "tgt">>, Nil, Nil, Nil, Nil)
       /\ UNCHANGED hist
    \/ \E n \in SourceNames, p \in {<<"c1", "k1">>, <<"c2", "k2">>} :
          EnvUpdateData(MaxSharedSteps, <<"ns1", n>>, p[1], p[2]) /\ UNCHANGED hist
    \/ \E n \in SourceNames : EnvDelete(MaxSharedSteps, <<"ns1", n>>) /\ UNCHANGED hist
    \/ \E k \in Keys : Dequeue("w1", k)
    \/ Reconcile("w1")

SpecShared == Init /\ [][NextShared]_vars

\* Sources whose destination annotation names a secret that is itself a source:
\* srcA names itself or srcB, srcB names tgt; one namespace, one Reconcile worker.
NextNamedSource ==
    \/ \E d \in SourceNames, p \in {<<"c1", "k1">>, <<"c2", "k2">>} :
          /\ EnvCreate(MaxNamedSteps, <<"ns1", "srcA">>, "true", d, p[1], p[2])
          /\ UNCHANGED hist
    \/ /\ EnvCreate(MaxNamedSteps, <<"ns1", "srcB">>, "true", "tgt", "c3", "k3")
       /\ UNCHANGED hist
    \/ \E n \in SourceNames : EnvDelete(MaxNamedSteps, <<"ns1", n>>) /\ UNCHANGED hist
    \/ \E k \in Keys : Dequeue("w1", k)
    \/ Reconcile("w1")

SpecNamedSource == Init /\ [][NextNamedSource]_vars

\* Two sources in one namespace that name the same target, a target that another
\* writer may have created, and two Reconcile workers whose passes, for different
\* sources, interleave their store calls.
NextRace ==
    \/ /\ EnvCreate(MaxRaceSteps, <<"ns1", "srcA">>, "true", "tgt", "c1", "k1")
       /\ UNCHANGED hist
    \/ /\ EnvCreate(MaxRaceSteps, <<"ns1", "srcB">>, "true", "tgt", "c2", "k2")
       /\ UNCHANGED hist
    \/ /\ EnvCreate(MaxRaceSteps, <<"ns1", "tgt">>, Nil, Nil, Nil, Nil)
       /\ UNCHANGED hist
    \/ \E w \in Workers, k \in Keys : Dequeue(w, k)
    \/ \E w \in Workers : ReconcileActive(w)

SpecRace == Init /\ [][NextRace]_vars

\* the last store call of the pass of worker w got the store's own answer
Answered(w) == calls[w] # <<>> /\ calls[w][Len(calls[w])].err # "Transient"

\* One source that is created, renewed and deleted while nobody else touches the
\* target.
NextLive ==
    \/ \E p \in {<<"c1", "k1">>, <<"c2", "k2">>} :
          /\ EnvCreate(MaxLiveSteps, <<"ns1", "srcA">>, "true", "tgt", p[1], p[2])
          /\ UNCHANGED hist
    \/ \E p \in {<<"c1", "k1">>, <<"c2", "k2">>} :
          EnvUpdateData(MaxLiveSteps, <<"ns1", "srcA">>, p[1], p[2]) /\ UNCHANGED hist
    \/ EnvDelete(MaxLiveSteps, <<"ns1", "srcA">>) /\ UNCHANGED hist
    \/ Dequeue("w1", <<"ns1", "srcA">>)
    \/ Reconcile("w1")

\* Fair redelivery: a queued key is handed to the worker, a pass runs to its return
\* and the controller takes the result.  Store calls that eventually succeed: a
\* call that is issued again and again is not refused transiently for ever.
Fairness ==
    /\ WF_vars(Dequeue("w1", <<"ns1", "srcA">>))
    /\ WF_vars(Reconcile("w1"))
    /\ SF_vars(GetSource("w1") /\ Answered("w1")')
    /\ SF_vars(GetTarget("w1") /\ Answered("w1")')
    /\ SF_vars(AddFinalizerUpdate("w1") /\ Answered("w1")')
    /\ SF_vars(Create("w1") /\ Answered("w1")')
    /\ SF_vars(Update("w1") /\ Answered("w1")')
    /\ SF_vars(DeletionUpdateTarget("w1") /\ Answered("w1")')
    /\ SF_vars(DeletionUpdateSource("w1") /\ Answered("w1")')

SpecLive == Init /\ [][NextLive]_vars /\ Fairness

\* One source that is created and then renewed or touched a bounded number of
\* times and never deleted, while nobody else writes the target.
NextConverge ==
    \/ \E p \in {<<"c1", "k1">>, <<"c2", "k2">>} :
          /\ EnvCreate(MaxLiveSteps, <<"ns1", "srcA">>, "true", "tgt", p[1], p[2])
          /\ UNCHANGED hist
    \/ \E p \in {<<"c1", "k1">>, <<"c2", "k2">>} :
          EnvUpdateData(MaxLiveSteps, <<"ns1", "srcA">>, p[1], p[2]) /\ UNCHANGED hist
    \/ EnvTouch(MaxLiveSteps, <<"ns1", "srcA">>) /\ UNCHANGED hist
    \/ Dequeue("w1", <<"ns1", "srcA">>)
    \/ ReconcileActive("w1")

\* Fair redelivery and store calls that eventually succeed, for the passes of a
\* source that is not deleted.
FairnessActive ==
    /\ WF_vars(Dequeue("w1", <<"ns1", "srcA">>))
    /\ WF_vars(ReconcileActive("w1"))
    /\ SF_vars(GetSource("w1") /\ Answered("w1")')
    /\ SF_vars(GetTarget("w1") /\ Answered("w1")')
    /\ SF_vars(AddFinalizerUpdate("w1") /\ Answered("w1")')
    /\ SF_vars(Create("w1") /\ Answered("w1")')
    /\ SF_vars(Update("w1") /\ Answered("w1")')

SpecConverge == Init /\ [][NextConverge]_vars /\ FairnessActive

\* One source that is created with a certificate and a key, may lose its tls.crt or
\* be renewed, and is deleted.
NextLiveEmptied ==
    \/ /\ EnvCreate(MaxLiveSteps, <<"ns1", "srcA">>, "true", "tgt", "c1", "k1")
       /\ UNCHANGED hist
    \/ \E p \in {<<Empty, "k1">>, <<"c2", "k2">>} :
          EnvUpdateData(MaxLiveSteps, <<"ns1", "srcA">>, p[1], p[2]) /\ UNCHANGED hist
    \/ EnvDelete(MaxLiveSteps, <<"ns1", "srcA">>) /\ UNCHANGED hist
    \/ Dequeue("w1", <<"ns1", "srcA">>)
    \/ Reconcile("w1")

SpecLiveEmptied == Init /\ [][NextLiveEmptied]_vars /\ Fairness

\* One source that may carry the finalizer of another controller, which keeps it
\* in the store after its deletion was requested.
NextHeld ==
    \/ \E p \in {<<"c1", "k1">>, <<"c2", "k2">>} :
          /\ EnvCreate(MaxEnvSteps, <<"ns1", "srcA">>, "true", "tgt", p[1], p[2])
          /\ UNCHANGED hist
    \/ \E p \in {<<"c1", "k1">>, <<"c2", "k2">>} :
          /\ EnvCreateHeld(MaxEnvSteps, <<"ns1", "srcA">>, "true", "tgt", p[1], p[2])
          /\ UNCHANGED hist
    \/ EnvDelete(MaxEnvSteps, <<"ns1", "srcA">>) /\ UNCHANGED hist
    \/ Dequeue("w1", <<"ns1", "srcA">>)
    \/ Reconcile("w1")

SpecHeld == Init /\ [][NextHeld]_vars

\* Two sources that name the same target; each may be deleted, the first may be
\* renewed.
NextLiveShared ==
    \/ /\ EnvCreate(MaxLiveSteps, <<"ns1", "srcA">>, "true", "tgt", "c1", "k1")
       /\ UNCHANGED hist
    \/ /\ EnvCreate(MaxLiveSteps, <<"ns1", "srcB">>, "true", "tgt", "c2", "k2")
       /\ UNCHANGED hist
    \/ EnvUpdateData(MaxLiveSteps, <<"ns1", "srcA">>, "c2", "k2") /\ UNCHANGED hist
    \/ \E n \in SourceNames : EnvDelete(MaxLiveSteps, <<"ns1", n>>) /\ UNCHANGED hist
    \/ \E n \in SourceNames : Dequeue("w1", <<"ns1", n>>)
    \/ Reconcile("w1")

\* Fair redelivery with two keys: the work queue hands out every queued key, also
\* while another key is queued again and again.
FairnessShared ==
    /\ Fairness
    /\ \A n \in SourceNames : SF_vars(Dequeue("w1", <<"ns1", n>>))

SpecLiveShared == Init /\ [][NextLiveShared]_vars /\ FairnessShared

(***************************************************************************)
(* Vocabulary of the claims.                                               *)
(***************************************************************************)
\* a source that is not being deleted and holds a non-empty tls.crt and tls.key
ActiveValid(src) ==
    /\ Exists(src) /\ ~src.deleting
    /\ src.data["tls.crt"] \notin {Nil, Empty}
    /\ src.data["tls.key"] \notin {Nil, Empty}

\* the key of the target a source names
DestKey(src) == <<src.ns, src.dest>>

\* the writes the pass of worker w has issued to key k
WritesTo(w, k) == {i \in 1..Len(calls[w]) : calls[w][i].op # "get" /\ calls[w][i].key = k}

\* the pass of worker w has read its target (the second call of a pass)
ReadTarget(w) == Len(calls[w]) >= 2
TargetRead(w) == calls[w][2]

\* a generation of a target: the three fields with prefix g
Gen(d, g) == <<d[g \o "tls.crt"], d[g \o "tls.key"], d[g \o "tls.kid"]>>

\* C1: a successful pass for an active, valid source whose tls.crt differs from the
\* existing target's next-tls.crt issues exactly one write to the target, an update,
\* after which prev-tls.* is the old tls.*, tls.* the old next-tls.* and next-tls.*
\* the source's tls.crt, tls.key and the kid derived from tls.crt.
C1_ThreeGenerationShift ==
    \A w \in Workers :
        ( /\ pc[w] = "done" /\ result[w] = "ok"
          /\ ActiveValid(source[w])
          /\ ReadTarget(w) /\ TargetRead(w).err = "ok"
          /\ source[w].data["tls.crt"] # TargetRead(w).after.data["next-tls.crt"] )
        => \E i \in 1..Len(calls[w]) :
              /\ WritesTo(w, DestKey(source[w])) = {i}
              /\ calls[w][i].op = "update" /\ calls[w][i].err = "ok"
              /\ calls[w][i].before.data = TargetRead(w).after.data
              /\ Gen(calls[w][i].after.data, "prev-") = Gen(calls[w][i].before.data, "")
              /\ Gen(calls[w][i].after.data, "") = Gen(calls[w][i].before.data, "next-")
              /\ Gen(calls[w][i].after.data, "next-") =
                    <<source[w].data["tls.crt"], source[w].data["tls.key"],
                      NewSHA1(source[w].data["tls.crt"])>>
              /\ Undisturbed(w) => store[DestKey(source[w])] = calls[w][i].after

\* C1 witness: a pass has rotated a target whose three generations were all filled
C1_Witness ==
    \E w \in Workers :
        /\ pc[w] = "done" /\ result[w] = "ok" /\ ActiveValid(source[w])
        /\ \E i \in 1..Len(calls[w]) :
              /\ calls[w][i].op = "update" /\ calls[w][i].err = "ok"
              /\ calls[w][i].key = DestKey(source[w])
              /\ calls[w][i].before.data["prev-tls.crt"] = "c1"
              /\ calls[w][i].before.data["tls.crt"] = "c2"
              /\ calls[w][i].before.data["next-tls.crt"] = "c3"
              /\ calls[w][i].after.data["next-tls.crt"] = "c1"

C3_NoRotationOnRepeat ==
    \A w \in Workers :
        ( /\ ReadTarget(w) /\ TargetRead(w).err = "ok"
          /\ Exists(source[w]) /\ ~source[w].deleting
          /\ source[w].data["tls.crt"] = TargetRead(w).after.data["next-tls.crt"] )
        => /\ WritesTo(w, DestKey(source[w])) = {}
           /\ Undisturbed(w) => store[DestKey(source[w])] = TargetRead(w).after

\* C3 witness: a pass that ran after a change of an unrelated annotation of the
\* source has returned and the target is as it was
C3_Witness ==
    \E w \in Workers :
        /\ pc[w] = "done" /\ result[w] = "ok"
        /\ ReadTarget(w) /\ TargetRead(w).err = "ok"
        /\ source[w].extra /\ ~source[w].deleting
        /\ source[w].data["tls.crt"] = TargetRead(w).after.data["next-tls.crt"]
        /\ store[DestKey(source[w])] = TargetRead(w).after

\* C5: a pass for a key whose previous pass succeeded for an active, valid source, on
\* a store that nothing has written to since, issues no write and returns success
\* unless a read fails.
C5_Idempotence ==
    \A w \in Workers :
        (pc[w] # "idle" /\ req[w] \in settled)
        => /\ \A i \in 1..Len(calls[w]) : calls[w][i].op = "get"
           /\ ( /\ pc[w] = "done"
                /\ \A i \in 1..Len(calls[w]) : calls[w][i].err # "Transient" )
              => result[w] = "ok"

\* C5 witness: such a repeated pass has read source and target and returned
C5_Witness ==
    \E w \in Workers :
        /\ pc[w] = "done" /\ req[w] \in settled
        /\ result[w] = "ok" /\ Len(calls[w]) = 2

GenOf(p) == <<p[1], p[2], NewSHA1(p[1])>>
NoGen == <<Empty, Empty, Empty>>

\* C4: when the source has held the pairs hist[1..n], adjacent certificates distinct
\* and each reconciled before the next change, and the n-th has reached the target,
\* the target holds hist[n-2], hist[n-1], hist[n] in prev-tls.*, tls.*, next-tls.*,
\* each with the key that came with the certificate and the kid derived from it, and
\* empty fields for the generations that do not exist yet.
C4_RollingHistory ==
    LET n == Len(hist)
        d == store[<<"ns1", "tgt">>].data
    IN (n >= 1 /\ InSync(<<"ns1", "srcA">>))
       => /\ Gen(d, "next-") = GenOf(hist[n])
          /\ Gen(d, "") = IF n >= 2 THEN GenOf(hist[n - 1]) ELSE NoGen
          /\ Gen(d, "prev-") = IF n >= 3 THEN GenOf(hist[n - 2]) ELSE NoGen

\* C4 witness: the fourth certificate has reached the target, the first has left it
C4_Witness ==
    /\ Len(hist) = 4 /\ InSync(<<"ns1", "srcA">>)
    /\ store[<<"ns1", "tgt">>].data["prev-tls.crt"] = hist[2][1]
    /\ hist[1][1] # hist[4][1]

\* the pass of worker w has read its source, which is the object First(w)
ReadSource(w) == Len(calls[w]) >= 1 /\ calls[w][1].err = "ok"
First(w) == calls[w][1].after

\* the pass of worker w has issued no create and no update
NoWrite(w) == \A i \in 1..Len(calls[w]) : calls[w][i].op = "get"

\* the pass of worker w has returned an error although no store call failed
\* transiently
Failed(w) ==
    /\ pc[w] = "done" /\ result[w] # "ok"
    /\ \A i \in 1..Len(calls[w]) : calls[w][i].err # "Transient"

\* C8: a pass for an existing secret that lacks the source annotation, or has it
\* with another value than "true", issues no write and returns success.
C8_MarkerRecheck ==
    \A w \in Workers :
        (ReadSource(w) /\ First(w).marker # "true") => (NoWrite(w) /\ ~Failed(w))

\* C9: the event filter admits a secret exactly when it has the source annotation
\* with value "true" and a non-empty destination-name annotation, and no pass that
\* the watch path starts creates a target for a secret without the source marker.
C9_TriggerFilter ==
    /\ \A k \in Keys : Exists(store[k]) =>
          (secretPredicate(store[k])
             <=> (store[k].marker = "true" /\ store[k].dest \notin {Nil, Empty}))
    /\ \A w \in Workers : \A i \in 1..Len(calls[w]) :
          (calls[w][i].op = "create" /\ calls[w][i].err = "ok")
             => First(w).marker = "true"

\* C10: a pass for a source whose tls.crt or tls.key is absent or empty issues no
\* write and returns success.
C10_Validation ==
    \A w \in Workers :
        ( /\ ReadSource(w)
          /\ \/ First(w).data["tls.crt"] \in {Nil, Empty}
             \/ First(w).data["tls.key"] \in {Nil, Empty} )
        => (NoWrite(w) /\ ~Failed(w))

\* deletion was requested for the source, which carries the finalizer and to which
\* its target holds an owner reference
DeletionRequested ==
    LET s == store[<<"ns1", "srcA">>]
        t == store[<<"ns1", "tgt">>]
    IN /\ Exists(s) /\ s.deleting /\ ContainsFinalizer(s, Finalizer)
       /\ Exists(t) /\ \E r \in t.owners : r.uid = s.uid

\* the source is gone and the target is left without owner reference and without
\* deletion timestamp
Decoupled ==
    LET s == store[<<"ns1", "srcA">>]
        t == store[<<"ns1", "tgt">>]
    IN /\ ~Exists(s)
       /\ Exists(t) /\ t.owners = {} /\ ~t.deleting

\* C6: once deletion is requested for a source that carries the finalizer and whose
\* target holds an owner reference to it, then under fair redelivery and store
\* calls that eventually succeed the source is eventually removed and the target
\* is left without the owner reference and without deletion timestamp.
C6_DeletionDecoupling == DeletionRequested ~> Decoupled

\* C11: when the read of the requested key reports not-found, the pass returns
\* success at once: the read is its only store call.
C11_SourceNotFound ==
    \A w \in Workers :
        (calls[w] # <<>> /\ calls[w][1].err = "NotFound")
        => /\ Len(calls[w]) = 1
           /\ pc[w] = "done" /\ result[w] = "ok"

\* C11 witness: a pass for a source that was removed before the pass ran has
\* returned
C11_Witness ==
    \E w \in Workers :
        /\ pc[w] = "done" /\ result[w] = "ok"
        /\ Len(calls[w]) = 1
        /\ calls[w][1].op = "get" /\ calls[w][1].key = req[w] /\ calls[w][1].err = "NotFound"
        /\ ~Exists(store[req[w]])

\* the i-th store call of the pass of worker w failed: a read with another error
\* than not-found (a missing source or target is no failure), or a refused write
CallFailed(w, i) ==
    /\ calls[w][i].err # "ok"
    /\ ~(calls[w][i].op = "get" /\ calls[w][i].err = "NotFound")

\* C12: a failed store call is the last call of its pass, and the pass returns the
\* error of that call; no pass returns success after a failed write.
C12_FailurePropagation ==
    \A w \in Workers : \A i \in 1..Len(calls[w]) :
        CallFailed(w, i)
        => /\ i = Len(calls[w])
           /\ pc[w] = "done"
           /\ result[w] = calls[w][i].err

\* C12 witness: the update that adds the finalizer met a conflict, because the source
\* had changed since the pass read it, and the pass returned the conflict
C12_Witness ==
    \E w \in Workers :
        /\ pc[w] = "done" /\ result[w] = "Conflict"
        /\ Len(calls[w]) = 3
        /\ calls[w][3].op = "update" /\ calls[w][3].key = req[w]
        /\ calls[w][3].err = "Conflict"

\* C13: a pass whose create of the target is refused with already-exists returns
\* success, and the secret the other writer stored stays as it is.
C13_BenignCreateRace ==
    \A w \in Workers : \A i \in 1..Len(calls[w]) :
        (calls[w][i].op = "create" /\ calls[w][i].err = "AlreadyExists")
        => /\ pc[w] = "done" /\ result[w] = "ok"
           /\ Undisturbed(w) => store[calls[w][i].key] = calls[w][i].before

\* the pass of worker w found a target that another source controls
SharedTargetRead(w) ==
    /\ ReadTarget(w) /\ TargetRead(w).err = "ok"
    /\ \E r \in TargetRead(w).after.owners : r.controller /\ r.name # source[w].name

\* C14: a pass for an active, valid source that finds the target owned by another
\* source of the namespace, with a next-tls.crt other than its own tls.crt, and
\* whose store calls all succeed, returns success and updates the target with the
\* same three-way shift, next-tls.* coming from this source.
C14_SharedTarget ==
    \A w \in Workers :
        ( /\ pc[w] = "done"
          /\ ActiveValid(source[w])
          /\ SharedTargetRead(w)
          /\ source[w].data["tls.crt"] # TargetRead(w).after.data["next-tls.crt"]
          /\ \A i \in 1..Len(calls[w]) : ~CallFailed(w, i) )
        => /\ result[w] = "ok"
           /\ \E i \in 1..Len(calls[w]) :
                 /\ calls[w][i].op = "update" /\ calls[w][i].key = DestKey(source[w])
                 /\ Gen(calls[w][i].after.data, "prev-") = Gen(calls[w][i].before.data, "")
                 /\ Gen(calls[w][i].after.data, "") = Gen(calls[w][i].before.data, "next-")
                 /\ Gen(calls[w][i].after.data, "next-") =
                       <<source[w].data["tls.crt"], source[w].data["tls.key"],
                         NewSHA1(source[w].data["tls.crt"])>>

\* C15: after a successful pass for an active, valid source, on a store nothing
\* else wrote to, the target's next-tls.crt and next-tls.key are the tls.crt and
\* tls.key the pass read from the source, and next-tls.kid is derived from that
\* tls.crt.
C15_PendingMirrorsSource ==
    \A w \in Workers :
        ( /\ pc[w] = "done" /\ result[w] = "ok"
          /\ ActiveValid(source[w])
          /\ Undisturbed(w) )
        => /\ Exists(store[DestKey(source[w])])
           /\ Gen(store[DestKey(source[w])].data, "next-") =
                 <<source[w].data["tls.crt"], source[w].data["tls.key"],
                   NewSHA1(source[w].data["tls.crt"])>>

\* the three generations of a target
Generations == {"prev-", "", "next-"}

\* C16: the kid an accepted create or update of a pass writes into next-tls.kid is derived from the tls.crt of its
\* source, and in a target two filled generations have the same kid exactly when
\* they have the same certificate, whatever their keys.
C16_DeterministicKid ==
    /\ \A w \in Workers : \A i \in 1..Len(calls[w]) :
          (calls[w][i].op # "get" /\ calls[w][i].err = "ok"
             /\ calls[w][i].key = DestKey(source[w]))
          => calls[w][i].after.data["next-tls.kid"] = NewSHA1(source[w].data["tls.crt"])
    /\ LET d == store[<<"ns1", "tgt">>].data
       IN \A g, h \in Generations :
             (d[g \o "tls.crt"] \notin {Nil, Empty} /\ d[h \o "tls.crt"] \notin {Nil, Empty})
             => (d[g \o "tls.crt"] = d[h \o "tls.crt"] <=> d[g \o "tls.kid"] = d[h \o "tls.kid"])

\* C16 witness: the target holds the same certificate with two different keys in
\* prev-tls.* and next-tls.*, and another certificate in tls.*
C16_Witness ==
    LET d == store[<<"ns1", "tgt">>].data
    IN /\ d["prev-tls.crt"] = "c1" /\ d["next-tls.crt"] = "c1"
       /\ d["prev-tls.key"] # d["next-tls.key"]
       /\ d["prev-tls.kid"] = d["next-tls.kid"]
       /\ d["tls.crt"] = "c2" /\ d["tls.kid"] # d["next-tls.kid"]

\* the value that decides the namespaces: ROTATOR_NAMESPACES when it is set,
\* otherwise the --namespaces flag
DecidingValue == IF namespacesEnv.ok THEN namespacesEnv.value ELSE namespacesCli

\* C17: once the manager is set up, all namespaces are watched exactly when neither
\* ROTATOR_NAMESPACES nor --namespaces is set, and otherwise the watched namespaces
\* are the pieces of the comma-separated deciding value.
C17_NamespaceScoping ==
    mainPc = "started"
    => /\ namespacesMap.nil <=> (~namespacesEnv.ok /\ namespacesCli = <<>>)
       /\ ~namespacesMap.nil
             => namespacesMap.keys
                   = {Split(DecidingValue)[i] : i \in 1..Len(Split(DecidingValue))}

\* the pass of worker w read a source with deletion timestamp and finalizer, and
\* found its target
DeletionPass(w) ==
    /\ ReadSource(w) /\ First(w).deleting /\ ContainsFinalizer(First(w), Finalizer)
    /\ ReadTarget(w) /\ TargetRead(w).err = "ok"

\* C18: in a pass for a source with deletion timestamp and finalizer whose target
\* exists, an update of the source is preceded by an accepted update of the target
\* that stores it without owner reference to the source and without deletion
\* timestamp; when the update of the target is refused, the pass returns that error,
\* issues no update of the source, and the stored source keeps its finalizer.
C18_DeletionOrdering ==
    \A w \in Workers : DeletionPass(w) =>
        /\ pc[w] = "DeletionUpdateSource" => Len(calls[w]) = 3
        /\ \A i \in 1..Len(calls[w]) :
              (calls[w][i].op = "update" /\ calls[w][i].key = req[w])
              => \E j \in 1..(i - 1) :
                    /\ calls[w][j].op = "update" /\ calls[w][j].key = TargetRead(w).key
                    /\ calls[w][j].err = "ok"
                    /\ \A r \in calls[w][j].after.owners : r.name # First(w).name
                    /\ ~calls[w][j].after.deleting
        /\ \A j \in 1..Len(calls[w]) :
              (calls[w][j].op = "update" /\ calls[w][j].key = TargetRead(w).key
                 /\ calls[w][j].err # "ok")
              => /\ j = Len(calls[w])
                 /\ pc[w] = "done" /\ result[w] = calls[w][j].err
                 /\ ContainsFinalizer(store[req[w]], Finalizer)

\* C18 witness: the update of the target was refused and the source still has its
\* finalizer
C18_Witness ==
    \E w \in Workers :
        /\ DeletionPass(w)
        /\ pc[w] = "done" /\ Len(calls[w]) = 3
        /\ calls[w][3].op = "update" /\ calls[w][3].key = TargetRead(w).key
        /\ calls[w][3].err = "Transient" /\ result[w] = "Transient"
        /\ store[req[w]].deleting /\ ContainsFinalizer(store[req[w]], Finalizer)

\* C19: a pass for a source with deletion timestamp and finalizer that finds its
\* target without any owner reference, and whose store calls all succeed, returns
\* success and has removed the finalizer from the source.
C19_DeletionResumable ==
    \A w \in Workers :
        ( /\ DeletionPass(w)
          /\ TargetRead(w).after.owners = {}
          /\ pc[w] = "done"
          /\ \A i \in 1..Len(calls[w]) : ~CallFailed(w, i) )
        => /\ result[w] = "ok"
           /\ \E i \in 1..Len(calls[w]) :
                 /\ calls[w][i].op = "update" /\ calls[w][i].key = req[w]
                 /\ calls[w][i].err = "ok"
                 /\ ~ContainsFinalizer(calls[w][i].after, Finalizer)

\* the source carries the finalizer and a deletion timestamp
FinalizerHeld ==
    LET s == store[<<"ns1", "srcA">>]
    IN Exists(s) /\ s.deleting /\ ContainsFinalizer(s, Finalizer)

\* C20: a source that carries the finalizer and a deletion timestamp eventually
\* loses the finalizer, under fair redelivery and store calls that eventually
\* succeed, whatever its data.
C20_FinalizerReleased ==
    FinalizerHeld ~> ~ContainsFinalizer(store[<<"ns1", "srcA">>], Finalizer)

\* the owner references of object o to the secret named n
RefsTo(o, n) == {r \in o.owners : r.name = n}

\* deletion was requested for srcB while srcA and srcB both carry the finalizer and
\* the target they share has an owner reference to srcA only
SecondSourceDeleted ==
    LET a == store[<<"ns1", "srcA">>]
        b == store[<<"ns1", "srcB">>]
        t == store[<<"ns1", "tgt">>]
    IN /\ Exists(a) /\ ~a.deleting /\ ContainsFinalizer(a, Finalizer)
       /\ Exists(b) /\ b.deleting /\ ContainsFinalizer(b, Finalizer)
       /\ Exists(t) /\ t.owners # {} /\ t.owners = RefsTo(t, "srcA")

\* srcB is gone and the target still has its owner reference to srcA
SecondSourceGone ==
    LET t == store[<<"ns1", "tgt">>]
    IN /\ ~Exists(store[<<"ns1", "srcB">>])
       /\ Exists(t) /\ t.owners # {} /\ t.owners = RefsTo(t, "srcA")

\* C21: when two sources with the finalizer name one target that has an owner
\* reference to the first only, a deletion request for the second eventually, under
\* fair redelivery, removes the second source, and the target keeps its owner
\* reference to the first.
C21_DeleteOneOfSeveral == SecondSourceDeleted ~> SecondSourceGone

\* an object without the fields an update of its owner references changes
SansOwners(o) == [o EXCEPT !.rv = 0, !.owners = {}]

\* C22: a pass for a source with deletion timestamp issues no create, and an update
\* of the target that it issues changes nothing but the owner references, from
\* which it removes those to this source; the nine data fields stay as they were,
\* also when the source's tls.crt differs from next-tls.crt.
C22_DeletionKeepsHistory ==
    \A w \in Workers : (ReadSource(w) /\ First(w).deleting) =>
        \A i \in 1..Len(calls[w]) :
            /\ calls[w][i].op # "create"
            /\ (calls[w][i].op = "update" /\ calls[w][i].key # req[w])
               => /\ calls[w][i].key = targetNamespacedName(First(w))
                  /\ calls[w][i].err = "ok"
                     => /\ calls[w][i].after.data = calls[w][i].before.data
                        /\ SansOwners(calls[w][i].after) = SansOwners(calls[w][i].before)
                        /\ calls[w][i].after.owners
                              = calls[w][i].before.owners \ RefsTo(calls[w][i].before, First(w).name)
                        /\ ~calls[w][i].after.deleting

\* C22 witness: the deletion pass of a source whose tls.crt differs from
\* next-tls.crt has updated the target, whose generations are as before
C22_Witness ==
    \E w \in Workers :
        /\ ReadSource(w) /\ First(w).deleting
        /\ Len(calls[w]) >= 3
        /\ calls[w][3].op = "update" /\ calls[w][3].err = "ok"
        /\ calls[w][3].key = <<"ns1", "tgt">>
        /\ First(w).data["tls.crt"] # calls[w][3].before.data["next-tls.crt"]
        /\ calls[w][3].before.data["tls.crt"] # Empty
        /\ store[<<"ns1", "tgt">>].data = calls[w][3].before.data
        /\ store[<<"ns1", "tgt">>].owners = {}

\* the pass of worker w read an active, valid source without the finalizer and got
\* an answer about its target
AttachPass(w) ==
    /\ ReadSource(w) /\ ActiveValid(First(w)) /\ ~ContainsFinalizer(First(w), Finalizer)
    /\ ReadTarget(w) /\ TargetRead(w).err \in {"ok", "NotFound"}

\* C23: a pass for an active, valid source without the finalizer issues, as its first
\* write, the update of the source with the finalizer added; it creates, updates
\* or skips the target only after that update was accepted, and when the update is
\* refused it returns the error without a write to the target.
C23_FinalizerAttachment ==
    \A w \in Workers : AttachPass(w) =>
        /\ pc[w] \in {"Create", "Update", "done"} => Len(calls[w]) >= 3
        /\ Len(calls[w]) >= 3 =>
              /\ calls[w][3].op = "update" /\ calls[w][3].key = req[w]
              /\ calls[w][3].err = "ok" =>
                    /\ ContainsFinalizer(calls[w][3].after, Finalizer)
                    /\ calls[w][3].after.data = First(w).data
              /\ calls[w][3].err # "ok" =>
                    /\ Len(calls[w]) = 3
                    /\ pc[w] = "done" /\ result[w] = calls[w][3].err
        /\ \A i \in 1..Len(calls[w]) :
              (calls[w][i].op # "get" /\ calls[w][i].key = targetNamespacedName(First(w)))
              => (i > 3 /\ calls[w][3].err = "ok")

\* C23 witness: a pass has attached the finalizer to a source whose certificate the
\* target already holds, and has then skipped the rotation
C23_Witness ==
    \E w \in Workers :
        /\ AttachPass(w) /\ TargetRead(w).err = "ok"
        /\ First(w).data["tls.crt"] = TargetRead(w).after.data["next-tls.crt"]
        /\ pc[w] = "done" /\ result[w] = "ok"
        /\ Len(calls[w]) = 3 /\ calls[w][3].err = "ok"
        /\ ContainsFinalizer(store[req[w]], Finalizer)

\* C24: a pass for a source that has a deletion timestamp and not the Reconciler's
\* finalizer issues no write, whether or not the target exists, and returns success
\* unless a read fails.
C24_DeletingWithoutFinalizer ==
    \A w \in Workers :
        (ReadSource(w) /\ First(w).deleting /\ ~ContainsFinalizer(First(w), Finalizer))
        => /\ NoWrite(w)
           /\ pc[w] \in {"GetTarget", "done"}
           /\ ~Failed(w)

\* C24 witness: such a pass has found the target and has returned
C24_Witness ==
    \E w \in Workers :
        /\ ReadSource(w) /\ First(w).deleting /\ ~ContainsFinalizer(First(w), Finalizer)
        /\ ReadTarget(w) /\ TargetRead(w).err = "ok"
        /\ pc[w] = "done" /\ result[w] = "ok"
        /\ Exists(store[req[w]]) /\ Exists(store[<<"ns1", "tgt">>])

\* the pass of worker w read a source with deletion timestamp and finalizer, and
\* its read of the target reported not-found
DeletionPassNoTarget(w) ==
    /\ ReadSource(w) /\ First(w).deleting /\ ContainsFinalizer(First(w), Finalizer)
    /\ ReadTarget(w) /\ TargetRead(w).err = "NotFound"

\* C25: a pass for a source with deletion timestamp and finalizer whose target is
\* not found issues exactly one write, the update of the source without the
\* finalizer, creates no target, and returns what that update returned.
C25_DeletionAbsentTarget ==
    \A w \in Workers : DeletionPassNoTarget(w) =>
        /\ pc[w] \in {"DeletionUpdateSource", "done"}
        /\ pc[w] = "DeletionUpdateSource" => Len(calls[w]) = 2
        /\ pc[w] = "done" =>
              /\ Len(calls[w]) = 3
              /\ calls[w][3].op = "update" /\ calls[w][3].key = req[w]
              /\ result[w] = calls[w][3].err
              /\ calls[w][3].err = "ok" => ~ContainsFinalizer(calls[w][3].after, Finalizer)
              /\ Undisturbed(w) => ~Exists(store[TargetRead(w).key])

\* C25 witness: such a pass has removed the finalizer; the source is gone and no
\* target exists
C25_Witness ==
    \E w \in Workers :
        /\ DeletionPassNoTarget(w)
        /\ pc[w] = "done" /\ result[w] = "ok"
        /\ ~Exists(store[req[w]]) /\ ~Exists(store[TargetRead(w).key])

\* the key of the target of the pass of worker w, once the source is read
PassTarget(w) == targetNamespacedName(First(w))

\* the create and update calls the pass of worker w has issued against its target
TargetWrites(w) == IF ReadSource(w) THEN WritesTo(w, PassTarget(w)) ELSE {}

Marked(o) == Exists(o) /\ o.marker # Nil /\ o.marker = "true"

\* the secrets before and after agree in data and annotations
SameContent(before, after) ==
    /\ after.data = before.data
    /\ after.marker = before.marker
    /\ after.dest = before.dest
    /\ after.extra = before.extra

\* C29: an accepted write of a pass to a secret that carries the source marker
\* leaves that secret's data and annotations as they were, whatever destination
\* name the source has.
C29_SourceDataUntouched ==
    \A w \in Workers : \A i \in 1..Len(calls[w]) :
        (/\ calls[w][i].op # "get" /\ calls[w][i].err = "ok"
         /\ Marked(calls[w][i].before) /\ Exists(calls[w][i].after))
        => SameContent(calls[w][i].before, calls[w][i].after)

\* the pass of worker w has returned success for an active, valid source whose
\* target it found, on a store nothing else wrote to
SucceededOnTarget(w) ==
    /\ pc[w] = "done" /\ result[w] = "ok"
    /\ ReadSource(w) /\ ActiveValid(First(w))
    /\ ReadTarget(w) /\ TargetRead(w).err = "ok"
    /\ Undisturbed(w)

\* C28: after every successful pass for an active source that found its target,
\* also one whose owner reference an earlier deletion pass had removed, the
\* target has an owner reference to that source.
C28_OwnerReapplied ==
    \A w \in Workers : SucceededOnTarget(w) =>
        \E r \in store[TargetRead(w).key].owners :
            r.name = First(w).name /\ r.uid = First(w).uid

\* the update calls the pass of worker w has issued against its target after
\* reading it
TargetUpdates(w) ==
    {i \in 3..Len(calls[w]) :
        ReadSource(w) /\ calls[w][i].op = "update" /\ calls[w][i].key = PassTarget(w)}

\* the target was written between the read of the pass of worker w and its
\* update call i
Stale(w, i) == calls[w][i].before # TargetRead(w).after

\* C27: an update of the target that a pass computed from a read that is no longer
\* the stored state is refused and the pass returns that error; every accepted
\* update that changes the target's data stores the three-way shift of the data
\* that was stored immediately before it.
C27_NoLostRotation ==
    \A w \in Workers : \A i \in TargetUpdates(w) :
        /\ Stale(w, i) =>
              /\ calls[w][i].err # "ok"
              /\ pc[w] = "done" /\ result[w] = calls[w][i].err
        /\ (calls[w][i].err = "ok" /\ calls[w][i].after.data # calls[w][i].before.data) =>
              calls[w][i].after.data =
                  updateLocalTargetData(calls[w][i].before, First(w), kidOf(First(w))).data

\* C27 witness: two passes for different sources read the same target, the update
\* of one was accepted and rotated the target, and the update of the other was
\* refused with a conflict and returned as the error of its pass
C27_Witness ==
    \E w \in Workers : \E i \in TargetUpdates(w) :
        /\ Stale(w, i)
        /\ calls[w][i].err = "Conflict"
        /\ pc[w] = "done" /\ result[w] = "Conflict"
        /\ calls[w][i].before.data # TargetRead(w).after.data
        /\ \E v \in Workers \ {w} : \E j \in TargetUpdates(v) :
              /\ calls[v][j].err = "ok"
              /\ calls[v][j].after = calls[w][i].before
              /\ TargetRead(v).after = TargetRead(w).after

\* the source ns1/srcA has reached its target and no pass is writing
Converged ==
    ActiveValid(store[<<"ns1", "srcA">>]) =>
        /\ InSync(<<"ns1", "srcA">>)
        /\ \A w \in Workers : NoWrite(w)

\* C30: for one active, valid source that stops changing, under fair redelivery and
\* store calls that eventually succeed, the system reaches and keeps a state where
\* the target exists, its next-tls.crt is the source's tls.crt, and passes issue
\* no write.
C30_Convergence == <>[]Converged

\* C30 witness: after a renewal was rotated into the target, a further pass has
\* read source and target, written nothing and returned success, and nothing is
\* queued
C30_Witness ==
    /\ ActiveValid(store[<<"ns1", "srcA">>])
    /\ InSync(<<"ns1", "srcA">>)
    /\ store[<<"ns1", "tgt">>].data["tls.crt"] \notin {Nil, Empty}
    /\ envSteps = MaxLiveSteps
    /\ queue = {}
    /\ pc["w1"] = "done" /\ result["w1"] = "ok"
    /\ Len(calls["w1"]) = 2 /\ NoWrite("w1")

\* the keys of the stored targets that a pass created (initializeLocalTarget is the
\* only place that sets the TLS type)
ReconcilerTargets == {k \in Keys : Exists(store[k]) /\ store[k].type = SecretTypeTLS}

\* the value v is a filled field
Filled(v) == v \notin {Nil, Empty}

\* C31: in a target that a pass created, next-tls.crt is filled and differs from
\* tls.crt, and a filled tls.crt differs from prev-tls.crt.
C31_AdjacentDistinct ==
    \A k \in ReconcilerTargets :
        LET d == store[k].data
        IN /\ Filled(d["next-tls.crt"])
           /\ d["next-tls.crt"] # d["tls.crt"]
           /\ Filled(d["tls.crt"]) => d["tls.crt"] # d["prev-tls.crt"]

\* C31 witness: the source went from one certificate to another and back, and the
\* target holds the first certificate in prev-tls.crt and in next-tls.crt, with the
\* other one between them
C31_Witness ==
    \E k \in ReconcilerTargets :
        LET d == store[k].data
        IN /\ Filled(d["prev-tls.crt"]) /\ Filled(d["tls.crt"])
           /\ d["prev-tls.crt"] = d["next-tls.crt"]
           /\ d["tls.crt"] # d["next-tls.crt"]

\* C32: in a target that a pass created, the kid of each generation is the
\* identifier derived from that generation's certificate when the certificate is
\* filled, and empty when it is not.
C32_KidMatchesCertificate ==
    \A k \in ReconcilerTargets : \A g \in Generations :
        LET d == store[k].data
        IN IF Filled(d[g \o "tls.crt"])
           THEN d[g \o "tls.kid"] = NewSHA1(d[g \o "tls.crt"])
           ELSE d[g \o "tls.kid"] = Empty

\* C32 witness: a target whose three generations hold three different certificates
C32_Witness ==
    \E k \in ReconcilerTargets :
        LET d == store[k].data
        IN /\ \A g \in Generations : Filled(d[g \o "tls.crt"])
           /\ Cardinality({d[g \o "tls.crt"] : g \in Generations}) = 3

\* the (tls.crt, tls.key) pairs the source has held, each at one moment
HeldPairs == {hist[i] : i \in 1..Len(hist)}

\* C33: in a target that a pass created, the certificate and the key of each filled
\* generation are a pair that the source held in tls.crt and tls.key at one and
\* the same moment, however renewals and passes interleave.
C33_PairedCertificateAndKey ==
    \A k \in ReconcilerTargets : \A g \in Generations :
        LET d == store[k].data
        IN Filled(d[g \o "tls.crt"]) => <<d[g \o "tls.crt"], d[g \o "tls.key"]>> \in HeldPairs

\* C33 witness: the source has held a certificate with one key and another
\* certificate with another key, both reached the target, and the source was
\* renewed again while the target still holds them
C33_Witness ==
    \E k \in ReconcilerTargets :
        LET d == store[k].data
        IN /\ Filled(d["tls.crt"]) /\ Filled(d["next-tls.crt"])
           /\ d["tls.key"] # d["next-tls.key"]
           /\ d["tls.crt"] # d["next-tls.crt"]
           /\ Len(hist) = 3
           /\ <<d["tls.crt"], d["next-tls.key"]>> \notin HeldPairs

\* the secret o is a target: it has a controller owner reference and none of the
\* source annotations
OwnedTarget(o) ==
    /\ Exists(o) /\ o.marker = Nil /\ o.dest = Nil
    /\ \E r \in o.owners : r.controller

\* the keys of the sources that control o
OwnerKeys(o) == {<<o.ns, r.name>> : r \in {x \in o.owners : x.controller}}

\* a target was deleted under a source that is reconciled, and nothing is queued
\* or running that would create it again
TargetLost ==
    \E ns \in Namespaces :
        /\ ActiveValid(store[<<ns, "srcA">>])
        /\ ContainsFinalizer(store[<<ns, "srcA">>], Finalizer)
        /\ ~Exists(store[<<ns, "tgt">>])
        /\ queue = {}
        /\ \A w \in Workers : pc[w] = "idle"

\* C34: an event on a stored target, which has an owner reference to a source and
\* none of the source annotations, makes the watch path queue the key of the
\* owning source and not the key of the target.
C34_TargetEventsRouted ==
    \A k \in Keys : OwnedTarget(store[k]) =>
        /\ OwnerKeys(store[k]) \subseteq EventKeys(store[k])
        /\ k \notin EventKeys(store[k])

\* the store calls of the pass of worker w: the reads come first, the source and
\* then the target, and at most two writes follow
CallsBounded(w) ==
    /\ Len(calls[w]) <= 4
    /\ \A i \in 1..Len(calls[w]) : calls[w][i].op = "get" <=> i <= 2
    /\ Len(calls[w]) >= 1 => calls[w][1].key = req[w]
    /\ (Len(calls[w]) >= 2 /\ ReadSource(w)) => calls[w][2].key = PassTarget(w)

\* C35: a pass issues at most two reads, of the source and then of the target, and
\* at most two writes, at most one to the source and at most one to the target.
C35_BoundedPass ==
    \A w \in Workers :
        /\ CallsBounded(w)
        /\ Cardinality(WritesTo(w, req[w])) <= 1
        /\ Cardinality(TargetWrites(w)) <= 1

\* C36: for every configured TargetNameAnnotation, the name Reconcile looks the
\* target up by and the name initializeLocalTarget gives it are the value of the
\* annotation that the event filter required to be non-empty.
C36_ConsistentDestinationKey ==
    wirePc = "reconciled" =>
        /\ lookupName = annotations[rTargetNameAnnotation]
        /\ createName = annotations[rTargetNameAnnotation]

\* a secret that the filter of a reconciler with another annotation key admitted
\* was reconciled under a name its configured annotation does not hold
MisnamedTarget ==
    /\ wirePc = "reconciled"
    /\ rTargetNameAnnotation = TestTargetNameAnnotation
    /\ annotations[rTargetNameAnnotation] = "tgt"
    /\ lookupName = "" /\ createName = ""
====
